---- MODULE Spec2Model ----
(***************************************************************************)
(* The Multinomial distribution class of                                   *)
(* tensorflow/contrib/distributions/python/ops/multinomial.py.             *)
(*                                                                         *)
(* A graph tensor is modelled as a node: the tensor value it evaluates to  *)
(* together with the assertions it depends on that fail.  Evaluating a     *)
(* node delivers its value when no assertion it depends on fails, and      *)
(* otherwise ends in the error of one of the failing assertions (the       *)
(* executor runs independent assertions in no fixed order).                *)
(*                                                                         *)
(* Real numbers are exact rationals.  Logarithms are kept in a log domain  *)
(* (the logarithm of a positive rational, or -inf, +inf, nan), so that     *)
(* log, lgamma, exp and the sums between them are computed, not assumed.   *)
(* A finite real that is no rational (the lgamma of a non-integer, a       *)
(* fractional power) is the value "irr".                                   *)
(***************************************************************************)
EXTENDS Integers, Sequences, FiniteSets

\* ------------------------------------------------------------------ bounds

\* The largest trial count.
MaxN == 2
\* The largest size of a batch axis.
MaxBatch == 2
\* The largest number of classes.
MaxK == 3
\* Probabilities lie on the grid of multiples of 1/PDen.
PDen == 3

\* ----------------------------------------------------------------- numbers

RECURSIVE GCD(_, _)
GCD(a, b) == IF b = 0 THEN a ELSE GCD(b, a % b)

Abs(x) == IF x < 0 THEN -x ELSE x

\* The rational n/d in lowest terms, d > 0.
Rat(n, d) ==
  LET g == GCD(Abs(n), Abs(d))
      s == IF d < 0 THEN -1 ELSE 1
  IN  [k |-> "fin", n |-> s * (n \div g), d |-> s * (d \div g)]

Special(kind) == [k |-> kind, n |-> 0, d |-> 1]
PInf == Special("pinf")
NInf == Special("ninf")
NaN == Special("nan")
Irr == Special("irr")

Zero == Rat(0, 1)
One == Rat(1, 1)

IsFin(x) == x.k = "fin"
IsInteger(x) == x.k = "fin" /\ x.d = 1

\* Floating-point addition on the extended rationals.
RAdd(a, b) ==
  CASE a.k = "nan" \/ b.k = "nan" -> NaN
    [] a.k = "pinf" -> IF b.k = "ninf" THEN NaN ELSE PInf
    [] a.k = "ninf" -> IF b.k = "pinf" THEN NaN ELSE NInf
    [] b.k = "pinf" -> PInf
    [] b.k = "ninf" -> NInf
    [] a.k = "irr" \/ b.k = "irr" -> Irr
    [] OTHER -> Rat(a.n * b.d + b.n * a.d, a.d * b.d)

RNeg(a) ==
  CASE a.k = "fin" -> Rat(-a.n, a.d)
    [] a.k = "pinf" -> NInf
    [] a.k = "ninf" -> PInf
    [] OTHER -> a

RSub(a, b) == RAdd(a, RNeg(b))

\* -1, 0 or 1; an irrational value here is a positive one (an exp).
Sign(a) ==
  CASE a.k = "fin" -> IF a.n > 0 THEN 1 ELSE IF a.n < 0 THEN -1 ELSE 0
    [] a.k = "ninf" -> -1
    [] OTHER -> 1

RMul(a, b) ==
  CASE a.k = "nan" \/ b.k = "nan" -> NaN
    [] a.k \in {"pinf", "ninf"} \/ b.k \in {"pinf", "ninf"} ->
         IF Sign(a) * Sign(b) = 0 THEN NaN
         ELSE IF Sign(a) * Sign(b) > 0 THEN PInf ELSE NInf
    [] a = Zero \/ b = Zero -> Zero
    [] a.k = "irr" \/ b.k = "irr" -> Irr
    [] OTHER -> Rat(a.n * b.n, a.d * b.d)

RDiv(a, b) ==
  IF IsFin(a) /\ IsFin(b) /\ b.n # 0 THEN Rat(a.n * b.d, a.d * b.n) ELSE NaN

\* --------------------------------------------------------- the log domain
\* A log-domain value [k |-> "log", n, d] is the real number log(n/d), n, d > 0.

LogRat(n, d) == [Rat(n, d) EXCEPT !.k = "log"]
LogOne == LogRat(1, 1)

RECURSIVE Pow(_, _)
Pow(b, e) == IF e = 0 THEN 1 ELSE b * Pow(b, e - 1)

RECURSIVE Factorial(_)
Factorial(m) == IF m = 0 THEN 1 ELSE m * Factorial(m - 1)

\* math_ops.log of a number.
Log(x) ==
  CASE x.k = "fin" -> IF x.n > 0 THEN LogRat(x.n, x.d)
                      ELSE IF x.n = 0 THEN NInf ELSE NaN
    [] x.k = "pinf" -> PInf
    [] x.k = "ninf" -> NaN
    [] OTHER -> x

\* math_ops.exp of a log-domain value.
Exp(l) ==
  CASE l.k = "log" -> Rat(l.n, l.d)
    [] l.k = "ninf" -> Zero
    [] OTHER -> l

\* The sum of two log-domain values.
LAdd(a, b) ==
  CASE a.k = "nan" \/ b.k = "nan" -> NaN
    [] a.k = "pinf" -> IF b.k = "ninf" THEN NaN ELSE PInf
    [] a.k = "ninf" -> IF b.k = "pinf" THEN NaN ELSE NInf
    [] b.k = "pinf" -> PInf
    [] b.k = "ninf" -> NInf
    [] a.k = "irr" \/ b.k = "irr" -> Irr
    [] OTHER -> LogRat(a.n * b.n, a.d * b.d)

LNeg(a) ==
  CASE a.k = "log" -> LogRat(a.d, a.n)
    [] a.k = "pinf" -> NInf
    [] a.k = "ninf" -> PInf
    [] OTHER -> a

LSub(a, b) == LAdd(a, LNeg(b))

\* The product c * l of a finite number c and a log-domain value l.
LScale(c, l) ==
  CASE l.k = "nan" -> NaN
    [] l.k = "ninf" -> IF c.n > 0 THEN NInf ELSE IF c.n < 0 THEN PInf ELSE NaN
    [] l.k = "pinf" -> IF c.n > 0 THEN PInf ELSE IF c.n < 0 THEN NInf ELSE NaN
    [] c.n = 0 \/ l = LogOne -> LogOne
    [] l.k = "irr" \/ c.d # 1 -> Irr
    [] c.n > 0 -> LogRat(Pow(l.n, c.n), Pow(l.d, c.n))
    [] OTHER -> LogRat(Pow(l.d, -c.n), Pow(l.n, -c.n))

\* math_ops.lgamma(x + 1), the log of x factorial: +inf at the poles of gamma.
Lgamma1(x) ==
  CASE x.k # "fin" -> x
    [] x.d # 1 -> Irr
    [] x.n < 0 -> PInf
    [] OTHER -> LogRat(Factorial(x.n), 1)

\* ------------------------------------------------------------------ tensors
\* A tensor is its shape and its values, indexed from 1 along every axis.

RECURSIVE Indices(_)
Indices(shape) ==
  IF shape = <<>> THEN {<<>>}
  ELSE {<<i>> \o r : i \in 1..Head(shape), r \in Indices(Tail(shape))}

Tensor(shape, f(_)) == [shape |-> shape, val |-> [idx \in Indices(shape) |-> f(idx)]]

Front(s) == SubSeq(s, 1, Len(s) - 1)
Last(s) == s[Len(s)]
Rank(t) == Len(t.shape)
MaxOf(a, b) == IF a > b THEN a ELSE b

\* Axis i of a shape aligned at the right to rank r; the axes it lacks have size 1.
AlignedDim(shape, r, i) ==
  IF i > r - Len(shape) THEN shape[i - (r - Len(shape))] ELSE 1

Compatible(a, b) ==
  LET r == MaxOf(Len(a), Len(b))
  IN  \A i \in 1..r :
        \/ AlignedDim(a, r, i) = AlignedDim(b, r, i)
        \/ AlignedDim(a, r, i) = 1
        \/ AlignedDim(b, r, i) = 1

BroadcastShape(a, b) ==
  LET r == MaxOf(Len(a), Len(b))
  IN  [i \in 1..r |-> IF AlignedDim(a, r, i) = 1 THEN AlignedDim(b, r, i)
                      ELSE AlignedDim(a, r, i)]

\* The index into a tensor of this shape that a broadcast result's index reads.
BIdx(idx, shape) ==
  [i \in 1..Len(shape) |->
     IF shape[i] = 1 THEN 1 ELSE idx[i + (Len(idx) - Len(shape))]]

\* An elementwise binary op with broadcasting.
Map2(f(_, _), A, B) ==
  Tensor(BroadcastShape(A.shape, B.shape),
         LAMBDA idx : f(A.val[BIdx(idx, A.shape)], B.val[BIdx(idx, B.shape)]))

\* An elementwise unary op.
Map1(f(_), A) == Tensor(A.shape, LAMBDA idx : f(A.val[idx]))

\* array_ops.expand_dims(A, -1) and array_ops.expand_dims(A, -2).
ExpandLast(A) == Tensor(A.shape \o <<1>>, LAMBDA idx : A.val[Front(idx)])
ExpandBeforeLast(A) ==
  Tensor(Front(A.shape) \o <<1, Last(A.shape)>>,
         LAMBDA idx : A.val[SubSeq(idx, 1, Len(idx) - 2) \o <<Last(idx)>>])

RECURSIVE FoldTo(_, _, _, _)
FoldTo(add(_, _), zero, term(_), m) ==
  IF m = 0 THEN zero ELSE add(FoldTo(add, zero, term, m - 1), term(m))

\* math_ops.reduce_sum(A, reduction_indices=[-1]).
ReduceLast(add(_, _), zero, A) ==
  Tensor(Front(A.shape),
         LAMBDA idx : FoldTo(add, zero, LAMBDA j : A.val[idx \o <<j>>], Last(A.shape)))

\* math_ops.batch_matmul: the batch axes of A and B are the same.
BatchMatMul(A, B) ==
  LET r == Rank(A)
      batch == SubSeq(A.shape, 1, r - 2)
  IN  Tensor(batch \o <<A.shape[r - 1], B.shape[r]>>,
             LAMBDA idx :
               FoldTo(RAdd, Zero,
                      LAMBDA l : RMul(A.val[SubSeq(idx, 1, r - 2) \o <<idx[r - 1], l>>],
                                      B.val[SubSeq(idx, 1, r - 2) \o <<l, idx[r]>>]),
                      A.shape[r]))

\* array_ops.batch_matrix_set_diag.
BatchMatrixSetDiag(M, diag) ==
  Tensor(M.shape,
         LAMBDA idx : IF idx[Len(idx)] = idx[Len(idx) - 1]
                      THEN diag.val[Front(idx)] ELSE M.val[idx])

OnesLike(A) == Map1(LAMBDA x : One, A)

\* array_ops.shape: the vector of the axis sizes.
ShapeOf(A) == Tensor(<<Rank(A)>>, LAMBDA idx : A.shape[idx[1]])

\* -------------------------------------------------------------- graph nodes
\* A node of the graph: the value it evaluates to and the messages of the
\* assertions it depends on that fail (and so can end its evaluation).

Node(fails, t) == [fails |-> fails, t |-> t]

NoValue == [shape |-> <<>>, val |-> <<>>]
Delivered(t) == [k |-> "ok", msg |-> "", v |-> t]
Raised(m) == [k |-> "error", msg |-> m, v |-> NoValue]

\* The outcomes an evaluation of the node can have.
Outcomes(node) ==
  IF node.fails = {} THEN {Delivered(node.t)}
  ELSE {Raised(m) : m \in node.fails}

AnyElem(P(_), t) == \E idx \in DOMAIN t.val : P(t.val[idx])

\* check_ops.assert_non_negative(x, message): the message when it fails.
AssertNonNegative(x, message) ==
  IF AnyElem(LAMBDA v : Sign(v) < 0, x) THEN {message} ELSE {}

\* distribution_util.assert_integer_form(x, message).
AssertIntegerForm(x, message) ==
  IF AnyElem(LAMBDA v : ~IsInteger(v), x) THEN {message} ELSE {}

\* check_ops.assert_equal(x, y, message), x and y broadcast against each other.
AssertEqual(x, y, message) ==
  IF AnyElem(LAMBDA b : ~b, Map2(LAMBDA a, b : a = b, x, y)) THEN {message} ELSE {}

\* An assertion reading a node runs only once the node has been evaluated.
After(node, failure) == IF node.fails = {} THEN failure ELSE node.fails

\* -------------------------------------------------- distribution_util

None == [shape |-> <<>>, val |-> <<>>]

MsgPNegative == "p has negative components."
MsgPSum == "p does not sum to 1."
MsgBoth == "Must pass either p or logits, not both."
MsgNeither == "Must pass p or logits."

\* nn.softmax over the last axis.
Softmax(logits) ==
  LET e == Map1(Exp, logits)
  IN  Map2(RDiv, e, ExpandLast(ReduceLast(RAdd, Zero, e)))

\* distribution_util.get_logits_and_prob(logits, p, validate_args,
\* multidimensional=True).
GetLogitsAndProb(logits, p, validate_args) ==
  CASE logits = None /\ p = None ->
         [raised |-> MsgNeither, logits |-> Node({}, None), p |-> Node({}, None)]
    [] logits # None /\ p # None ->
         [raised |-> MsgBoth, logits |-> Node({}, None), p |-> Node({}, None)]
    [] p = None ->
         [raised |-> "", logits |-> Node({}, logits), p |-> Node({}, Softmax(logits))]
    [] OTHER ->
         LET fails == IF validate_args
                      THEN AssertNonNegative(p, MsgPNegative)
                           \cup AssertEqual(ReduceLast(RAdd, Zero, p),
                                            Tensor(<<>>, LAMBDA idx : One), MsgPSum)
                      ELSE {}
         IN  [raised |-> "", logits |-> Node(fails, Map1(Log, p)), p |-> Node(fails, p)]

\* distribution_util.log_combinations(n, counts).
LogCombinations(n, counts) ==
  LET total_permutations == Map1(Lgamma1, n)
      counts_factorial == Map1(Lgamma1, counts)
      redundant_permutations == ReduceLast(LAdd, LogOne, counts_factorial)
  IN  Map2(LSub, total_permutations, redundant_permutations)

\* ------------------------------------------------------------- Multinomial

MsgNNegative == "n has negative components."
MsgNInteger == "n has non-integer components."
MsgCountsNegative == "counts has negative components."
MsgCountsSum == "counts do not sum to n."
MsgCountsInteger == "counts have non-integer components."

NMessages == {MsgNNegative, MsgNInteger}
CountsMessages == {MsgCountsNegative, MsgCountsSum, MsgCountsInteger}

\* A slip: the integer check left out.
NAssertionsWithoutInteger(n, validate_args) ==
  IF validate_args THEN AssertNonNegative(n, MsgNNegative) ELSE {}

\* The control dependencies of __init__: the failing assertions on n.
NAssertions(n, validate_args) ==
  IF validate_args
  THEN AssertNonNegative(n, MsgNNegative) \cup AssertIntegerForm(n, MsgNInteger)
  ELSE {}

\* self._mean_val.
MeanVal(n, p) == Map2(RMul, ExpandLast(n), p)

\* self._broadcast_shape.
BroadcastShapeVal(mean_val) == ReduceLast(RAdd, Zero, mean_val)

\* The default of the argument validate_args of __init__.
ValidateArgsDefault == TRUE
ValidateArgs(given) == IF given = "default" THEN ValidateArgsDefault ELSE given = "True"

NoDist ==
  [validate_args |-> FALSE, logits |-> Node({}, None), p |-> Node({}, None),
   n |-> Node({}, None), mean_val |-> Node({}, None),
   broadcast_shape |-> Node({}, None)]

\* The attributes __init__ sets, given the logits and p it got back.
Attributes(lp, n, validate_args) ==
  LET deps == NAssertions(n, validate_args)
      mean_val == MeanVal(n, lp.p.t)
  IN  [validate_args |-> validate_args,
       logits |-> lp.logits,
       p |-> lp.p,
       n |-> Node(deps, n),
       mean_val |-> Node(deps \cup lp.p.fails, mean_val),
       broadcast_shape |-> Node(deps \cup lp.p.fails, BroadcastShapeVal(mean_val))]

\* A slip: logits is passed on only when p is absent.
MultinomialInitPreferringP(n, logits, p, validate_args) ==
  LET lp == GetLogitsAndProb(IF p = None THEN logits ELSE None, p, validate_args)
  IN  IF lp.raised # "" THEN [raised |-> lp.raised, dist |-> NoDist]
      ELSE [raised |-> "", dist |-> Attributes(lp, n, validate_args)]

\* Multinomial.__init__: the error raised ("" when none) and the instance.
MultinomialInit(n, logits, p, validate_args) ==
  LET lp == GetLogitsAndProb(logits, p, validate_args)
  IN  IF lp.raised # "" THEN [raised |-> lp.raised, dist |-> NoDist]
      ELSE [raised |-> "", dist |-> Attributes(lp, n, validate_args)]

\* A slip: the shape of the mean instead of that of its sum over the classes.
BatchShapeOfMean(d) == Node(d.mean_val.fails, ShapeOf(d.mean_val.t))

\* Multinomial._batch_shape.
BatchShape(d) == Node(d.broadcast_shape.fails, ShapeOf(d.broadcast_shape.t))

\* Multinomial._event_shape.
EventShape(d) ==
  Node(d.mean_val.fails,
       Tensor(<<1>>, LAMBDA idx : ShapeOf(d.mean_val.t).val[<<Rank(d.mean_val.t)>>]))

\* The three checks on counts.
SampleChecks(d, counts, with_sum) ==
  Node(AssertNonNegative(counts, MsgCountsNegative)
       \cup (IF with_sum
             THEN After(d.n, AssertEqual(d.n.t, ReduceLast(RAdd, Zero, counts),
                                         MsgCountsSum))
             ELSE {})
       \cup AssertIntegerForm(counts, MsgCountsInteger),
       counts)

\* A slip: the check that counts sum to n left out.
AssertValidSampleWithoutSum(d, counts) ==
  IF ~d.validate_args THEN Node({}, counts) ELSE SampleChecks(d, counts, FALSE)

\* A slip: validate_args not consulted.
AssertValidSampleAlways(d, counts) == SampleChecks(d, counts, TRUE)

\* Multinomial._assert_valid_sample.
AssertValidSample(d, counts) ==
  IF ~d.validate_args THEN Node({}, counts) ELSE SampleChecks(d, counts, TRUE)

\* log_unnormalized_prob of _log_prob.
LogUnnormalizedProb(d, checked) ==
  ReduceLast(LAdd, LogOne, Map2(LScale, checked.t, Map1(Log, d.p.t)))

\* log_normalizer of _log_prob.
LogNormalizer(d, checked) == Map1(LNeg, LogCombinations(d.n.t, checked.t))

\* What evaluating _log_prob's result depends on.
LogProbFails(d, checked) == checked.fails \cup d.p.fails \cup d.n.fails

\* A slip: the normalizer added instead of subtracted.
LogProbAddingNormalizer(d, counts) ==
  LET checked == AssertValidSample(d, counts)
  IN  Node(LogProbFails(d, checked),
           Map2(LAdd, LogUnnormalizedProb(d, checked), LogNormalizer(d, checked)))

\* Multinomial._log_prob.
LogProb(d, counts) ==
  LET checked == AssertValidSample(d, counts)
  IN  Node(LogProbFails(d, checked),
           Map2(LSub, LogUnnormalizedProb(d, checked), LogNormalizer(d, checked)))

\* A slip: the exp of the unnormalized log-probability.
ProbUnnormalized(d, counts) ==
  LET checked == AssertValidSample(d, counts)
  IN  Node(LogProbFails(d, checked), Map1(Exp, LogUnnormalizedProb(d, checked)))

\* Multinomial._prob.
Prob(d, counts) ==
  LET lp == LogProb(d, counts) IN Node(lp.fails, Map1(Exp, lp.t))

\* Multinomial._mean.
Mean(d) == d.mean_val

\* p of _variance: self.p broadcast against n.
BroadcastP(d) == Map2(RMul, d.p.t, ExpandLast(OnesLike(d.n.t)))

\* outer_prod of _variance.
OuterProd(d) ==
  BatchMatMul(ExpandLast(d.mean_val.t), ExpandBeforeLast(BroadcastP(d)))

\* The diagonal _variance sets: mean - mean * p.
VarianceDiag(d) ==
  Map2(RSub, d.mean_val.t, Map2(RMul, d.mean_val.t, BroadcastP(d)))

VarianceFails(d) == d.p.fails \cup d.n.fails \cup d.mean_val.fails

\* A slip: the outer product not negated.
VarianceWithoutNegation(d) ==
  Node(VarianceFails(d), BatchMatrixSetDiag(OuterProd(d), VarianceDiag(d)))

\* Multinomial._variance.
Variance(d) ==
  Node(VarianceFails(d),
       BatchMatrixSetDiag(Map1(RNeg, OuterProd(d)), VarianceDiag(d)))

\* ------------------------------------------------------------------ inputs

Classes == 2..MaxK
BatchSizes == 1..MaxBatch

\* The values of n and of counts: a negative one, a non-integer one, 0..MaxN.
GridSeq == <<Rat(-1, 1), Rat(1, 2)>> \o [i \in 1..(MaxN + 1) |-> Rat(i - 1, 1)]

\* A row of probabilities k/PDen.
RowSum(row) == FoldTo(RAdd, Zero, LAMBDA j : row[j], Len(row))
ValidPRows(K) ==
  {row \in [1..K -> {Rat(a, PDen) : a \in 0..PDen}] : RowSum(row) = One}
\* Rows the checks on p reject: one that sums to 0, one with a negative entry.
InvalidPRows(K) ==
  {[j \in 1..K |-> Zero],
   [j \in 1..K |-> IF j = 1 THEN Rat(-1, PDen)
                   ELSE IF j = 2 THEN Rat(PDen + 1, PDen) ELSE Zero]}
PRows(K) == ValidPRows(K) \cup InvalidPRows(K)

\* A count row: non-negative integers summing to at most MaxN, or such a row
\* with its first entry made negative or non-integer.
ValidCountRows(K) ==
  {row \in [1..K -> {Rat(i, 1) : i \in 0..MaxN}] : RowSum(row).n <= MaxN}
CountRows(K) ==
  ValidCountRows(K)
  \cup {[row EXCEPT ![1] = bad] : row \in ValidCountRows(K),
                                  bad \in {Rat(-1, 1), Rat(1, 2)}}

Rotate(row, by) == [j \in 1..Len(row) |-> row[((j + by - 1) % Len(row)) + 1]]

\* A tensor of one row, and a batch of b rows: the row and its rotations.
RowTensor(row) == Tensor(<<Len(row)>>, LAMBDA idx : row[idx[1]])
BatchOfRows(row, b) ==
  Tensor(<<b, Len(row)>>, LAMBDA idx : Rotate(row, idx[1] - 1)[idx[2]])

\* Batches are modelled for the distributions of two classes; those of more
\* classes are single distributions of a valid n.
NScalars == {Tensor(<<>>, LAMBDA idx : GridSeq[s]) : s \in 1..Len(GridSeq)}
\* A batch of n: consecutive values of the grid.
NBatches ==
  {Tensor(<<b>>, LAMBDA idx : Rotate(GridSeq, s - 1)[idx[1]]) :
     s \in 1..Len(GridSeq), b \in 2..MaxBatch}
NTensors == NScalars \cup NBatches

PTensors ==
  {RowTensor(row) : row \in UNION {PRows(K) : K \in Classes}}
  \cup {BatchOfRows(row, b) : row \in PRows(2), b \in BatchSizes}

\* logits: the logs of unnormalised positive weights.
WeightRows(K) == [1..K -> {Rat(1, 1), Rat(2, 1)}]
LogitsTensors == {Map1(Log, RowTensor(row)) : row \in WeightRows(2)}

CountTensors ==
  [K \in Classes |->
     {RowTensor(row) : row \in CountRows(K)}
     \cup {BatchOfRows(row, b) : row \in CountRows(K),
                                 b \in IF K = 2 THEN 2..MaxBatch ELSE {}}]

IsValidN(n) == \A idx \in DOMAIN n.val : IsInteger(n.val[idx]) /\ Sign(n.val[idx]) >= 0

\* The arguments n and p (or logits) of a construction: shapes that broadcast.
ShapesAgree(n, p) ==
  /\ Compatible(n.shape \o <<1>>, p.shape)
  /\ Last(p.shape) > 2 => Rank(n) = 0 /\ IsValidN(n)

\* The counts a call may pass: shapes that broadcast with p and with n.
CountsAgree(d, counts) ==
  /\ Last(counts.shape) = Last(d.p.t.shape)
  /\ Compatible(counts.shape, d.p.t.shape)
  /\ Compatible(Front(counts.shape), d.n.t.shape)

\* ------------------------------------------------------------------- state

VARIABLES phase, ctor, dist, last

vars == <<phase, ctor, dist, last>>

NoCtor == [n |-> None, logits |-> None, p |-> None, validate_args |-> "default"]
NoCall == [op |-> "none", arg |-> None, out |-> Delivered(NoValue)]

\* The node a query method builds.
Query(d, op, arg) ==
  CASE op = "log_prob" -> LogProb(d, arg)
    [] op = "prob" -> Prob(d, arg)
    [] op = "mean" -> Mean(d)
    [] op = "variance" -> Variance(d)
    [] op = "batch_shape" -> BatchShape(d)
    [] op = "event_shape" -> EventShape(d)
    [] op = "n" -> d.n
    [] op = "p" -> d.p
    [] OTHER -> d.logits

\* A slip: _variance keeps its broadcast p in the attribute.
StateAfterKeepingP(d, op, arg) ==
  IF op = "variance" THEN [d EXCEPT !.p = Node(d.p.fails, BroadcastP(d))] ELSE d

\* The instance after a query method has run: the methods assign no attribute.
StateAfter(d, op, arg) == d

Init ==
  /\ phase = "new"
  /\ ctor = NoCtor
  /\ dist = NoDist
  /\ last = NoCall

Construct(n, logits, p, validate_args) ==
  /\ phase = "new"
  /\ ctor' = [n |-> n, logits |-> logits, p |-> p, validate_args |-> validate_args]
  /\ LET r == MultinomialInit(n, logits, p, ValidateArgs(validate_args))
     IN  /\ phase' = IF r.raised # "" THEN "config_error" ELSE "built"
         /\ dist' = r.dist
  /\ UNCHANGED last

ConstructFromP ==
  /\ phase = "new"
  /\ \E n \in NTensors, p \in PTensors, v \in {"True", "False"} :
     ShapesAgree(n, p) /\ Construct(n, None, p, v)

ConstructFromLogits ==
  /\ phase = "new"
  /\ \E n \in NScalars, l \in LogitsTensors, v \in {"True", "False", "default"} :
     ShapesAgree(n, l) /\ Construct(n, l, None, v)

ConstructBoth ==
  /\ phase = "new"
  /\ \E n \in NScalars, l \in LogitsTensors, v \in {"True", "False"} :
     Construct(n, l, Map1(Exp, l), v)

ConstructNeither ==
  /\ phase = "new"
  /\ \E n \in NScalars, v \in {"True", "False"} : Construct(n, None, None, v)

Call(op, arg) ==
  /\ phase = "built"
  /\ last.op = "none"
  /\ \E out \in Outcomes(Query(dist, op, arg)) :
       last' = [op |-> op, arg |-> arg, out |-> out]
  /\ dist' = StateAfter(dist, op, arg)
  /\ UNCHANGED <<phase, ctor>>

CallOnCounts ==
  /\ phase = "built"
  /\ last.op = "none"
  /\ \E op \in {"log_prob", "prob"}, counts \in CountTensors[Last(dist.p.t.shape)] :
       CountsAgree(dist, counts) /\ Call(op, counts)

CallStatistic ==
  \E op \in {"mean", "variance", "batch_shape", "event_shape"} : Call(op, None)

CallAccessor ==
  \E op \in {"n", "p", "logits"} : Call(op, None)

\* The same call evaluated again.
Repeat ==
  /\ phase = "built"
  /\ last.op # "none"
  /\ \E out \in Outcomes(Query(dist, last.op, last.arg)) :
       last' = [last EXCEPT !.out = out]
  /\ dist' = StateAfter(dist, last.op, last.arg)
  /\ UNCHANGED <<phase, ctor>>

\* The caller has taken the result.
Return ==
  /\ phase = "built"
  /\ last.op # "none"
  /\ last' = NoCall
  /\ UNCHANGED <<phase, ctor, dist>>

Next ==
  \/ ConstructFromP
  \/ ConstructFromLogits
  \/ ConstructBoth
  \/ ConstructNeither
  \/ CallOnCounts
  \/ CallStatistic
  \/ CallAccessor
  \/ Repeat
  \/ Return

Spec == Init /\ [][Next]_vars

\* ------------------------------------------------- what the claims speak of
\* The arithmetic of the claims, on the entries of the arguments.

Built == phase = "built"
Called(ops) == Built /\ last.op \in ops
OnCounts == {"log_prob", "prob"}
\* The values that depend on n.
DerivedFromN ==
  {"n", "mean", "variance", "batch_shape", "event_shape", "log_prob", "prob"}

\* validate_args as the constructor was given it.
Validating == ctor.validate_args \in {"True", "default"}

NumClasses == Last(dist.p.t.shape)
\* The batch shape: n's shape broadcast with p's shape minus its last axis.
BatchDims == BroadcastShape(ctor.n.shape, Front(dist.p.t.shape))

\* The entry of a tensor that the batch element (or entry) idx reads.
At(t, idx) == t.val[BIdx(idx, t.shape)]
RowAt(t, idx) == [j \in 1..Last(t.shape) |-> At(t, idx \o <<j>>)]

NonNegInt(x) == x.k = "fin" /\ x.d = 1 /\ x.n >= 0

NViolations ==
  {m \in NMessages :
     \E idx \in DOMAIN ctor.n.val :
        \/ m = MsgNNegative /\ ctor.n.val[idx].n < 0
        \/ m = MsgNInteger /\ ctor.n.val[idx].d # 1}

PViolations ==
  IF ctor.p = None THEN {}
  ELSE {m \in {MsgPNegative, MsgPSum} :
          \/ m = MsgPNegative /\ \E idx \in DOMAIN ctor.p.val : ctor.p.val[idx].n < 0
          \/ m = MsgPSum /\ \E idx \in Indices(Front(ctor.p.shape)) :
                               RowSum(RowAt(ctor.p, idx)) # One}

\* The constraints on counts that the argument violates.
SampleViolations(counts) ==
  {m \in CountsMessages :
     \/ m = MsgCountsNegative /\ \E idx \in DOMAIN counts.val : counts.val[idx].n < 0
     \/ m = MsgCountsInteger /\ \E idx \in DOMAIN counts.val : counts.val[idx].d # 1
     \/ m = MsgCountsSum
        /\ \E idx \in Indices(BroadcastShape(ctor.n.shape, Front(counts.shape))) :
              RowSum(RowAt(counts, idx)) # At(ctor.n, idx)}

\* p and n are valid: every row of p is positive and sums to 1, n is a count.
PositiveP ==
  \A idx \in Indices(Front(dist.p.t.shape)) :
     /\ RowSum(RowAt(dist.p.t, idx)) = One
     /\ \A j \in 1..NumClasses : RowAt(dist.p.t, idx)[j].n > 0
ValidN == \A idx \in DOMAIN ctor.n.val : NonNegInt(ctor.n.val[idx])

RECURSIVE Choose(_, _)
Choose(m, k) ==
  IF k = 0 \/ k = m THEN 1 ELSE Choose(m - 1, k - 1) + Choose(m - 1, k)

\* n! / (c_1! ... c_K!) as a product of binomial coefficients.
RECURSIVE Coefficient(_, _)
Coefficient(crow, upto) ==
  IF upto = 0 THEN 1
  ELSE Coefficient(crow, upto - 1)
       * Choose(FoldTo(+, 0, LAMBDA j : crow[j].n, upto), crow[upto].n)

RECURSIVE Product(_, _)
Product(f(_), upto) == IF upto = 0 THEN 1 ELSE Product(f, upto - 1) * f(upto)

\* n!/(c_1!...c_K!) * prod_j p_j^c_j, for a row p of rationals and counts c.
Pmf(prow, crow) ==
  Rat(Coefficient(crow, Len(crow))
        * Product(LAMBDA j : Pow(prow[j].n, crow[j].n), Len(crow)),
      Product(LAMBDA j : Pow(prow[j].d, crow[j].n), Len(crow)))

\* C(n, k) * q^k * (1 - q)^(n - k).
BinomialPmf(m, k, q) ==
  Rat(Choose(m, k) * Pow(q.n, k) * Pow(q.d - q.n, m - k), Pow(q.d, m))

\* sum_j c_j * log(p_j) + log(n!) - sum_j log(c_j!), in floating point.
LogKernel(m, prow, crow) ==
  LSub(LAdd(FoldTo(LAdd, LogOne, LAMBDA j : LScale(crow[j], Log(prow[j])), Len(crow)),
            Lgamma1(m)),
       FoldTo(LAdd, LogOne, LAMBDA j : Lgamma1(crow[j]), Len(crow)))

\* The shape of log_prob(counts): counts' batch axes broadcast with the batch.
ResultDims(counts) == BroadcastShape(Front(counts.shape), BatchDims)

ValidSample(counts) ==
  /\ \A idx \in DOMAIN counts.val : NonNegInt(counts.val[idx])
  /\ \A idx \in Indices(ResultDims(counts)) :
        RowSum(RowAt(counts, idx)) = At(ctor.n, idx)

\* The rows of K non-negative integers that sum to m.
Compositions(K, m) ==
  {row \in [1..K -> {Rat(i, 1) : i \in 0..m}] : RowSum(row) = Rat(m, 1)}

RECURSIVE SumOver(_, _)
SumOver(f(_), S) ==
  IF S = {} THEN Zero
  ELSE LET x == CHOOSE y \in S : TRUE IN RAdd(f(x), SumOver(f, S \ {x}))

\* ------------------------------------------------------------------ claims

\* C1: a construction given both of logits and p, or neither, raises the
\* configuration error and leaves no instance; a construction given exactly
\* one of them yields an instance that holds both p and logits.
C1_ExactlyOneParameterization ==
  phase # "new" =>
    IF (ctor.logits = None) = (ctor.p = None)
    THEN phase = "config_error" /\ dist = NoDist
    ELSE /\ phase = "built"
         /\ dist.p.t # None /\ dist.logits.t # None
         /\ dist.p.t.shape = dist.logits.t.shape

C1_Witness == phase = "config_error" /\ ctor.logits # None /\ ctor.p # None

\* C2 as stated: with validate_args true, a log_prob or prob call whose counts
\* violate a constraint ends in a sample-constraint error naming a violated
\* constraint, and a call whose counts violate none raises no such error.
C2_SampleErrorNamesViolation ==
  Called(OnCounts) /\ Validating =>
    IF SampleViolations(last.arg) # {}
    THEN last.out.k = "error" /\ last.out.msg \in SampleViolations(last.arg)
    ELSE last.out.msg \notin CountsMessages

\* C2 as amended: such a call never delivers a result and ends in the error of
\* a check that fails: a sample-constraint error naming a violated constraint
\* when n and p pass their own checks, and otherwise possibly the error of the
\* failed check on n or p; counts that violate nothing raise no
\* sample-constraint error.
C2_InvalidSampleNeverDelivers ==
  Called(OnCounts) /\ Validating =>
    IF SampleViolations(last.arg) # {}
    THEN /\ last.out.k = "error"
         /\ last.out.msg \in SampleViolations(last.arg) \cup NViolations \cup PViolations
         /\ NViolations \cup PViolations = {}
              => last.out.msg \in SampleViolations(last.arg)
    ELSE last.out.msg \notin CountsMessages

C2_Witness ==
  /\ Called({"log_prob"}) /\ Validating
  /\ NViolations \cup PViolations = {}
  /\ SampleViolations(last.arg) = {MsgCountsSum}
  /\ last.out = Raised(MsgCountsSum)

\* C3 as stated: with validate_args true and an n that has a negative or a
\* non-integer component, every value derived from n fails with the
\* invalid-parameter error of a violated constraint on n; a valid n raises no
\* such error.
C3_InvalidNRaisesParameterError ==
  Called(DerivedFromN) /\ Validating =>
    IF NViolations # {}
    THEN last.out.k = "error" /\ last.out.msg \in NViolations
    ELSE last.out.msg \notin NMessages

\* The checks on counts that do not read n.
IndependentSampleViolations ==
  IF last.op \in OnCounts THEN SampleViolations(last.arg) \ {MsgCountsSum} ELSE {}

\* C3 as amended: every such value fails with the error of a check that
\* fails, never a result: the invalid-parameter error of n, unless p or the
\* call's counts fail a check of their own, whose error may be raised instead.
C3_InvalidNNeverDelivers ==
  Called(DerivedFromN) /\ Validating =>
    IF NViolations # {}
    THEN /\ last.out.k = "error"
         /\ last.out.msg \in NViolations \cup PViolations \cup IndependentSampleViolations
         /\ PViolations \cup IndependentSampleViolations = {}
              => last.out.msg \in NViolations
    ELSE last.out.msg \notin NMessages

C3_Witness ==
  /\ Called({"variance"}) /\ Validating
  /\ NViolations = {MsgNInteger}
  /\ last.out = Raised(MsgNInteger)

\* C4: validate_args, true by default, gates every check: when false no call
\* ends in an error and log_prob (prob) is the kernel computed on the counts as
\* given; when true an invalid n fails what derives from it and invalid counts
\* fail log_prob and prob.
C4_ValidateArgsGatesChecks ==
  /\ Built => dist.validate_args = Validating
  /\ Built /\ last.op # "none" /\ ~Validating =>
       /\ last.out.k = "ok"
       /\ last.op \in OnCounts =>
            \A idx \in Indices(ResultDims(last.arg)) :
               LET kernel == LogKernel(At(ctor.n, idx), RowAt(dist.p.t, idx),
                                       RowAt(last.arg, idx))
               IN  last.out.v.val[idx] =
                     IF last.op = "prob" THEN Exp(kernel) ELSE kernel
  /\ Called(DerivedFromN) /\ Validating /\ NViolations # {} => last.out.k = "error"
  /\ Called(OnCounts) /\ Validating /\ SampleViolations(last.arg) # {}
       => last.out.k = "error"

C4_Witness ==
  /\ Called({"log_prob"}) /\ ~Validating
  /\ MsgCountsNegative \in SampleViolations(last.arg)
  /\ NViolations # {}
  /\ last.out.k = "ok"

\* C5: for a positive p that sums to 1, a count n and counts of non-negative
\* integers that sum to n, log_prob is the log of
\* n!/(c_1!...c_K!) * prod_j p_j^c_j and prob is that number; with two classes
\* it is the binomial C(n,k) q^k (1-q)^(n-k).
C5_LogProbIsMultinomialPmf ==
  Called(OnCounts) /\ PositiveP /\ ValidN /\ ValidSample(last.arg) =>
    /\ last.out.k = "ok"
    /\ last.out.v.shape = ResultDims(last.arg)
    /\ \A idx \in Indices(ResultDims(last.arg)) :
         LET prow == RowAt(dist.p.t, idx)
             crow == RowAt(last.arg, idx)
         IN  /\ last.out.v.val[idx] =
                  IF last.op = "prob" THEN Pmf(prow, crow) ELSE Log(Pmf(prow, crow))
             /\ NumClasses = 2 =>
                  Pmf(prow, crow) = BinomialPmf(At(ctor.n, idx).n, crow[1].n, prow[1])

C5_Witness ==
  /\ Called({"prob"}) /\ PositiveP /\ ValidN /\ ValidSample(last.arg)
  /\ dist.p.t.shape = <<2>> /\ dist.p.t.val[<<1>>] = Rat(1, PDen)
  /\ last.arg = RowTensor(<<One, One>>)
  /\ last.out = Delivered(Tensor(<<>>, LAMBDA idx : Rat(2 * (PDen - 1), PDen * PDen)))

\* C6: for a positive p that sums to 1 and a count n, prob summed over all
\* rows of K non-negative integers that sum to n is 1, in every batch element.
C6_PmfSumsToOne ==
  Built /\ PositiveP /\ ValidN =>
    \A idx \in Indices(BatchDims) :
       SumOver(LAMBDA crow : Prob(dist, RowTensor(crow)).t.val[idx],
               Compositions(NumClasses, At(ctor.n, idx).n)) = One

C6_Witness ==
  /\ Called({"prob"}) /\ PositiveP /\ ValidN /\ ValidSample(last.arg)
  /\ NumClasses = MaxK /\ ctor.n = Tensor(<<>>, LAMBDA idx : Rat(MaxN, 1))
  /\ last.out.k = "ok" /\ last.out.v.shape = <<>> /\ last.out.v.val[<<>>] # One

\* C7: mean()[j] = n p_j, variance()[i,i] = n p_i (1 - p_i) and
\* variance()[i,j] = -n p_i p_j for i # j, in every batch element of the
\* broadcast of n's and p's batch shapes.
C7_MeanAndVariance ==
  /\ Called({"mean"}) /\ last.out.k = "ok" =>
       /\ last.out.v.shape = BatchDims \o <<NumClasses>>
       /\ \A idx \in Indices(BatchDims) : \A j \in 1..NumClasses :
            last.out.v.val[idx \o <<j>>] =
              RMul(At(ctor.n, idx), RowAt(dist.p.t, idx)[j])
  /\ Called({"variance"}) /\ last.out.k = "ok" =>
       /\ last.out.v.shape = BatchDims \o <<NumClasses, NumClasses>>
       /\ \A idx \in Indices(BatchDims) : \A i, j \in 1..NumClasses :
            LET m == At(ctor.n, idx)
                prow == RowAt(dist.p.t, idx)
            IN  last.out.v.val[idx \o <<i, j>>] =
                  IF i = j THEN RMul(m, RMul(prow[i], RSub(One, prow[i])))
                  ELSE RNeg(RMul(m, RMul(prow[i], prow[j])))

C7_Witness ==
  /\ Called({"variance"}) /\ last.out.k = "ok"
  /\ ctor.n.shape = <<MaxBatch>> /\ dist.p.t.shape = <<2>>
  /\ PositiveP /\ ValidN
  /\ last.out.v.val[<<MaxBatch, 1, 2>>].n < 0

\* The vector of the sizes of the axes.
DimsVector(dims) == Tensor(<<Len(dims)>>, LAMBDA idx : dims[idx[1]])

\* C8: the batch shape is n's shape broadcast with p's shape minus its last
\* axis, the event shape is [K], and log_prob(counts) has the shape of
\* counts minus its last axis broadcast with the batch shape.
C8_Shapes ==
  /\ Called({"batch_shape"}) /\ last.out.k = "ok" =>
       last.out.v = DimsVector(BatchDims)
  /\ Called({"event_shape"}) /\ last.out.k = "ok" =>
       last.out.v = DimsVector(<<NumClasses>>)
  /\ Called(OnCounts) /\ last.out.k = "ok" =>
       last.out.v.shape = ResultDims(last.arg)

C8_Witness ==
  /\ Called({"batch_shape"})
  /\ ctor.n.shape = <<MaxBatch>> /\ dist.p.t.shape = <<2>>
  /\ last.out = Delivered(DimsVector(<<MaxBatch>>))

\* C9: in log_prob on a valid instance and valid counts, a class with
\* p_j = 0 and counts_j > 0 makes the result of its batch element -infinity.
C9_ZeroProbabilityGivesMinusInfinity ==
  Called({"log_prob"}) /\ last.out.k = "ok" /\ ValidN /\ PViolations = {}
    /\ ctor.p # None /\ ValidSample(last.arg) =>
      \A idx \in Indices(ResultDims(last.arg)) :
         (\E j \in 1..NumClasses :
             RowAt(dist.p.t, idx)[j] = Zero /\ RowAt(last.arg, idx)[j].n > 0)
           => last.out.v.val[idx] = NInf

====
